---- MODULE Spec2Model ----
(***************************************************************************)
(* Model of the ordered multi-map container built by mappedListFactory.    *)
(* One container instance of one generated class is modelled: its private  *)
(* #entries array, the immutability flag of the WithImmutability base      *)
(* class, and the two validators the factory closed over.  Every public    *)
(* method is one action; the record `last` keeps what the last call was    *)
(* given, what it did and what it returned or threw.                       *)
(***************************************************************************)
EXTENDS Integers, Sequences, FiniteSets, TLC

\* Longest entry sequence explored (guards of append and set).
MaxLen == 3

\* Most pairs of an init source handed to the constructor.
MaxInit == 2

\* The JavaScript value `undefined`.
undefined == "undefined"

\* Keys handed to the methods by callers.  "@invalid" is the key the
\* validator of the test class rejects; the other classes treat it like any
\* other key, so it is only handed to the test class.  "2" and "10" are
\* integer-like property names and only occur in a plain-mapping init.
Keys == {"@invalid", "B", "b", "2", "10"}

\* Values handed to the methods by callers (GValue may include undefined);
\* the empty string is a falsy value other than undefined.  "@invalid" is
\* the value the validator of the test class rejects and, like the key, is
\* only handed to the test class.
Values == {undefined, "@invalid", ""}

\* The container classes explored: mappedListFactory() with default options,
\* the class of the test suite with its two validators, and a class whose
\* key validator is not idempotent (it swaps the case of the key).
Factories == {"default", "TestClass", "SwapCase"}

VARIABLES
  factory,    \* which generated class the container is an instance of
  instance,   \* TRUE when the constructor returned the container
  entries,    \* the #entries array: a sequence of <<key, value>>
  immutable,  \* the flag of the WithImmutability base class
  last,       \* the last call: arguments, outcome, array and flag before it
  atLock,     \* history: the array when makeImmutable() first locked it
  appended,   \* history: arguments of the successful append calls, kept
              \* while append is the only method that has been called
  gen         \* a generator returned by keys(), values() or entries(): its
              \* index, what it has yielded, and the array when it was made

vars == <<factory, instance, entries, immutable, last, atLock, appended, gen>>

----------------------------------------------------------------------------
(* Strings: UTF-16 code units and the relational comparison of JavaScript. *)

CodeUnits(s) ==
  CASE s = "@invalid" -> <<64, 105, 110, 118, 97, 108, 105, 100>>
    [] s = "B" -> <<66>>
    [] s = "b" -> <<98>>
    [] s = "2" -> <<50>>
    [] s = "10" -> <<49, 48>>

RECURSIVE unitsLess(_, _)
unitsLess(a, b) ==
  IF b = <<>> THEN FALSE
  ELSE IF a = <<>> THEN TRUE
  ELSE IF Head(a) # Head(b) THEN Head(a) < Head(b)
  ELSE unitsLess(Tail(a), Tail(b))

\* keyA < keyB on strings
strLess(a, b) == unitsLess(CodeUnits(a), CodeUnits(b))

\* String.prototype.toLowerCase on the keys explored
toLowerCase(s) == IF s = "B" THEN "b" ELSE s

----------------------------------------------------------------------------
(* Validators.  A call either returns a value or throws.                   *)

Return(v) == [ok |-> TRUE, val |-> v]
Throw(e) == [ok |-> FALSE, val |-> e]

passthrough(value) == Return(value)

testValidateKey(key) ==
  IF key = "@invalid" THEN Throw("Invalid key") ELSE Return(toLowerCase(key))

testValidateValue(value) ==
  IF value = "@invalid" THEN Throw("Invalid value") ELSE Return(value)

\* A caller-supplied key validator that maps "B" to "b" and "b" to "B".
swapCase(key) ==
  IF key = "B" THEN Return("b") ELSE IF key = "b" THEN Return("B")
  ELSE Return(key)

validateKey(key) ==
  IF factory = "default" THEN passthrough(key)
  ELSE IF factory = "TestClass" THEN testValidateKey(key)
  ELSE swapCase(key)

validateValue(value) ==
  IF factory = "TestClass" THEN testValidateValue(value) ELSE passthrough(value)

----------------------------------------------------------------------------
(* The private methods, as functions of the #entries array.                *)

\* Array.prototype.splice(i, 1) with a 0-based index i
splice1(es, i) == SubSeq(es, 1, i) \o SubSeq(es, i + 2, Len(es))

\* Variant: the pair is put at the front of the array.
priv_append_unshift(es, key, value) == <<<<key, value>>>> \o es

priv_append(es, key, value) == Append(es, <<key, value>>)

\* Variant: the index is not stepped back after a splice.
RECURSIVE deleteLoop_noStepBack(_, _, _, _, _)
deleteLoop_noStepBack(es, key, value, i, deleted) ==
  IF ~(i < Len(es)) THEN [entries |-> es, deleted |-> deleted]
  ELSE LET _key == es[i + 1][1]
           _value == es[i + 1][2]
       IN IF _key = key /\ (value = undefined \/ _value = value)
          THEN deleteLoop_noStepBack(splice1(es, i), key, value, i + 1,
                                     deleted + 1)
          ELSE deleteLoop_noStepBack(es, key, value, i + 1, deleted)

RECURSIVE deleteLoop(_, _, _, _, _)
deleteLoop(es, key, value, i, deleted) ==
  IF ~(i < Len(es)) THEN [entries |-> es, deleted |-> deleted]
  ELSE LET _key == es[i + 1][1]
           _value == es[i + 1][2]
       IN IF _key = key /\ (value = undefined \/ _value = value)
          THEN deleteLoop(splice1(es, i), key, value, (i - 1) + 1, deleted + 1)
          ELSE deleteLoop(es, key, value, i + 1, deleted)

\* Variant: the value filter is ignored.
priv_delete_byKey(es, key, value) == deleteLoop(es, key, undefined, 0, 0)

priv_delete(es, key, value) == deleteLoop(es, key, value, 0, 0)

RECURSIVE getOptionalLoop(_, _, _)
getOptionalLoop(es, key, i) ==
  IF ~(i < Len(es)) THEN undefined
  ELSE IF es[i + 1][1] = key THEN es[i + 1][2]
  ELSE getOptionalLoop(es, key, i + 1)

priv_getOptional(es, key) == getOptionalLoop(es, key, 0)

priv_get(es, key) ==
  LET value == priv_getOptional(es, key)
  IN IF value = undefined THEN Throw("Missing") ELSE Return(value)

RECURSIVE getAllLoop(_, _, _, _)
getAllLoop(es, key, i, values) ==
  IF ~(i < Len(es)) THEN values
  ELSE IF es[i + 1][1] = key
       THEN getAllLoop(es, key, i + 1, Append(values, es[i + 1][2]))
       ELSE getAllLoop(es, key, i + 1, values)

priv_getAll(es, key) == getAllLoop(es, key, 0, <<>>)

\* Variant: every falsy value counts as "no value filter".
RECURSIVE hasLoop_truthy(_, _, _, _)
hasLoop_truthy(es, key, value, i) ==
  IF ~(i < Len(es)) THEN FALSE
  ELSE LET _key == es[i + 1][1]
           _value == es[i + 1][2]
       IN IF _key = key /\ (value \in {undefined, ""} \/ _value = value)
          THEN TRUE
          ELSE hasLoop_truthy(es, key, value, i + 1)

RECURSIVE hasLoop(_, _, _, _)
hasLoop(es, key, value, i) ==
  IF ~(i < Len(es)) THEN FALSE
  ELSE LET _key == es[i + 1][1]
           _value == es[i + 1][2]
       IN IF _key = key /\ (value = undefined \/ _value = value)
          THEN TRUE
          ELSE hasLoop(es, key, value, i + 1)

priv_has(es, key, value) == hasLoop(es, key, value, 0)

\* Variant: the first entry of the key is replaced where it stands.
priv_set_inPlace(es, key, value) ==
  LET first == CHOOSE i \in 1..Len(es) :
                 es[i][1] = key /\ \A j \in 1..(i - 1) : es[j][1] # key
  IN IF \A i \in 1..Len(es) : es[i][1] # key
     THEN priv_append(es, key, value)
     ELSE SubSeq(es, 1, first - 1) \o <<<<key, value>>>>
            \o priv_delete(SubSeq(es, first + 1, Len(es)), key, undefined).entries

priv_set(es, key, value) ==
  priv_append(priv_delete(es, key, undefined).entries, key, value)

\* Variant: the comparator orders the keys descending.
compare_descending(a, b) ==
  LET keyA == a[1]
      keyB == b[1]
  IN IF strLess(keyA, keyB) THEN 1
     ELSE IF strLess(keyB, keyA) THEN -1
     ELSE 0

\* The comparator handed to Array.prototype.sort
compare(a, b) ==
  LET keyA == a[1]
      keyB == b[1]
  IN IF strLess(keyA, keyB) THEN -1
     ELSE IF strLess(keyB, keyA) THEN 1
     ELSE 0

\* Array.prototype.sort is stable: an element goes after every element
\* that does not compare greater than it.
RECURSIVE insertSorted(_, _)
insertSorted(sorted, e) ==
  IF sorted = <<>> THEN <<e>>
  ELSE IF compare(sorted[Len(sorted)], e) > 0
       THEN Append(insertSorted(SubSeq(sorted, 1, Len(sorted) - 1), e),
                   sorted[Len(sorted)])
       ELSE Append(sorted, e)

RECURSIVE sortLoop(_, _)
sortLoop(sorted, rest) ==
  IF rest = <<>> THEN sorted
  ELSE sortLoop(insertSorted(sorted, Head(rest)), Tail(rest))

arraySort(es) == sortLoop(<<>>, es)

----------------------------------------------------------------------------
(* The immutability capability of the base class.                          *)

\* TRUE when throwIfImmutable() throws
throwIfImmutable == immutable

----------------------------------------------------------------------------
(* Bookkeeping of the last call.                                           *)

\* The init field of a call that is not the constructor's.
NoInit == [kind |-> "none", pairs |-> <<>>]

Call(op, key, value, outcome, ret, calls) ==
  [op |-> op, key |-> key, value |-> value, outcome |-> outcome, ret |-> ret,
   pre |-> entries, locked |-> immutable, calls |-> calls, init |-> NoInit]

Mutators == {"append", "delete", "set", "clear", "sort"}
Queries == {"get", "getOptional", "getAll", "has"}

\* The append history after a call: a successful append adds its arguments,
\* any other call ends the history.
Logged(op, key, value, ok) ==
  IF op = "append"
  THEN IF appended.only /\ ok
       THEN [appended EXCEPT !.args = Append(@, <<key, value>>)]
       ELSE appended
  ELSE [only |-> FALSE, args |-> <<>>]

\* The call threw: the array and the flag stay as they were.
Thrown(op, key, value, outcome, calls) ==
  /\ instance
  /\ last' = Call(op, key, value, outcome, undefined, calls)
  /\ appended' = Logged(op, key, value, FALSE)
  /\ UNCHANGED <<factory, instance, entries, immutable, atLock, gen>>

\* The call returned ret and left the array as es.
Returned(op, key, value, ret, es, calls) ==
  /\ instance
  /\ Len(es) <= MaxLen
  /\ entries' = es
  /\ last' = Call(op, key, value, "ok", ret, calls)
  /\ appended' = Logged(op, key, value, TRUE)
  /\ gen' = IF gen.state = "suspended" /\ es # entries
            THEN [gen EXCEPT !.changed = TRUE]
            ELSE gen
  /\ UNCHANGED <<factory, instance, immutable, atLock>>

----------------------------------------------------------------------------
(* The public methods.                                                     *)

\* The keys handed to the methods of the class.
ArgKeys == IF factory = "TestClass" THEN {"@invalid", "B", "b"} ELSE {"B", "b"}

\* The values handed to the methods of the class.
ArgValues == IF factory = "TestClass" THEN Values ELSE Values \ {"@invalid"}

\* The property names of a plain-mapping init handed to the class.
ObjectKeys ==
  IF factory = "TestClass" THEN {"@invalid", "b", "2", "10"} ELSE {"b", "2", "10"}

\* The sequences over S of at most n elements
SeqsUpTo(S, n) == UNION {[1..m -> S] : m \in 0..n}

\* The init sources: none, null, an iterable of pairs in iteration order, a
\* plain mapping as its properties in definition order (names distinct).
Inits ==
  {[kind |-> "undefined", pairs |-> <<>>], [kind |-> "null", pairs |-> <<>>]}
  \cup {[kind |-> "iterable", pairs |-> ps] :
          ps \in SeqsUpTo(ArgKeys \X ArgValues, MaxInit)}
  \cup {[kind |-> "object", pairs |-> ps] :
          ps \in {qs \in SeqsUpTo(ObjectKeys \X ArgValues, MaxInit) :
                    \A i, j \in 1..Len(qs) : i # j => qs[i][1] # qs[j][1]}}

\* Integer-like property names and the integers they stand for
IsIndex(name) == name \in {"2", "10"}
IndexOf(name) == IF name = "2" THEN 2 ELSE 10

RECURSIVE insertIndex(_, _)
insertIndex(sorted, p) ==
  IF sorted = <<>> THEN <<p>>
  ELSE IF IndexOf(sorted[Len(sorted)][1]) > IndexOf(p[1])
       THEN Append(insertIndex(SubSeq(sorted, 1, Len(sorted) - 1), p),
                   sorted[Len(sorted)])
       ELSE Append(sorted, p)

RECURSIVE ascendingIndices(_, _)
ascendingIndices(sorted, rest) ==
  IF rest = <<>> THEN sorted
  ELSE ascendingIndices(insertIndex(sorted, Head(rest)), Tail(rest))

\* Object.entries: the integer-like names in ascending numeric order, then
\* the other names in definition order.
ObjectEntries(props) ==
  ascendingIndices(<<>>, SelectSeq(props, LAMBDA p : IsIndex(p[1])))
    \o SelectSeq(props, LAMBDA p : ~IsIndex(p[1]))

\* Variant of the seeding loop: the pairs are seeded with set.
RECURSIVE appendAll_set(_, _, _)
appendAll_set(es, pairs, calls) ==
  IF pairs = <<>> THEN [ok |-> TRUE, outcome |-> "ok", entries |-> es, calls |-> calls]
  ELSE LET k == validateKey(Head(pairs)[1]) IN
    IF ~k.ok
    THEN [ok |-> FALSE, outcome |-> k.val, entries |-> es,
          calls |-> Append(calls, "validateKey")]
    ELSE LET v == validateValue(Head(pairs)[2]) IN
      IF ~v.ok
      THEN [ok |-> FALSE, outcome |-> v.val, entries |-> es,
            calls |-> calls \o <<"validateKey", "validateValue">>]
      ELSE appendAll_set(priv_set(es, k.val, v.val), Tail(pairs),
                         calls \o <<"validateKey", "validateValue">>)

\* Variant of the seeding loop: a rejected pair is skipped.
RECURSIVE appendAll_skipRejected(_, _, _)
appendAll_skipRejected(es, pairs, calls) ==
  IF pairs = <<>> THEN [ok |-> TRUE, outcome |-> "ok", entries |-> es, calls |-> calls]
  ELSE LET k == validateKey(Head(pairs)[1]) IN
    IF ~k.ok
    THEN appendAll_skipRejected(es, Tail(pairs), Append(calls, "validateKey"))
    ELSE LET v == validateValue(Head(pairs)[2]) IN
      IF ~v.ok
      THEN appendAll_skipRejected(es, Tail(pairs),
                                  calls \o <<"validateKey", "validateValue">>)
      ELSE appendAll_skipRejected(priv_append(es, k.val, v.val), Tail(pairs),
                                  calls \o <<"validateKey", "validateValue">>)

\* The seeding loop of the constructor: this.append(name, value) for every
\* pair, until one throws.
RECURSIVE appendAll(_, _, _)
appendAll(es, pairs, calls) ==
  IF pairs = <<>> THEN [ok |-> TRUE, outcome |-> "ok", entries |-> es, calls |-> calls]
  ELSE LET k == validateKey(Head(pairs)[1]) IN
    IF ~k.ok
    THEN [ok |-> FALSE, outcome |-> k.val, entries |-> es,
          calls |-> Append(calls, "validateKey")]
    ELSE LET v == validateValue(Head(pairs)[2]) IN
      IF ~v.ok
      THEN [ok |-> FALSE, outcome |-> v.val, entries |-> es,
            calls |-> calls \o <<"validateKey", "validateValue">>]
      ELSE appendAll(priv_append(es, k.val, v.val), Tail(pairs),
                     calls \o <<"validateKey", "validateValue">>)

\* Variant of the constructor: no branch for iterables.
construct_noIterable(init) ==
  IF init.kind = "undefined"
  THEN [ok |-> TRUE, outcome |-> "ok", entries |-> <<>>, calls |-> <<>>]
  ELSE IF init.kind = "null"
  THEN [ok |-> FALSE, outcome |-> "TypeError", entries |-> <<>>, calls |-> <<>>]
  ELSE IF init.kind = "iterable"
  THEN appendAll(<<>>, <<>>, <<>>)
  ELSE appendAll(<<>>, ObjectEntries(init.pairs), <<>>)

\* The constructor: what it leaves in #entries and whether it returns.
construct(init) ==
  IF init.kind = "undefined"
  THEN [ok |-> TRUE, outcome |-> "ok", entries |-> <<>>, calls |-> <<>>]
  ELSE IF init.kind = "null"
  THEN [ok |-> FALSE, outcome |-> "TypeError", entries |-> <<>>, calls |-> <<>>]
  ELSE IF init.kind = "iterable"
  THEN appendAll(<<>>, init.pairs, <<>>)
  ELSE appendAll(<<>>, ObjectEntries(init.pairs), <<>>)

\* No generator has been asked for.
NoGenerator ==
  [state |-> "none", kind |-> "entries", i |-> 0, atCall |-> <<>>,
   yielded |-> <<>>, changed |-> FALSE, callback |-> "none"]

Init ==
  /\ factory \in Factories
  /\ immutable = FALSE
  /\ atLock = <<>>
  /\ gen = NoGenerator
  /\ \E init \in Inits :
       LET made == construct(init)
       IN /\ instance = made.ok
          /\ entries = made.entries
          /\ appended = [only |-> made.ok /\ made.entries = <<>>, args |-> <<>>]
          /\ last = [op |-> "new", key |-> undefined, value |-> undefined,
                     outcome |-> made.outcome,
                     ret |-> IF made.ok THEN "this" ELSE undefined,
                     pre |-> <<>>, locked |-> FALSE, calls |-> made.calls,
                     init |-> init]

\* Variant: the arguments are validated before the immutability check.
append_validateFirst(key, value) ==
  LET k == validateKey(key) IN
    IF ~k.ok THEN Thrown("append", key, value, k.val, <<"validateKey">>)
    ELSE LET v == validateValue(value) IN
      IF ~v.ok
      THEN Thrown("append", key, value, v.val, <<"validateKey", "validateValue">>)
      ELSE IF throwIfImmutable
      THEN Thrown("append", key, value, "Immutable",
                  <<"validateKey", "validateValue">>)
      ELSE Returned("append", key, value, "this",
                    priv_append(entries, k.val, v.val),
                    <<"validateKey", "validateValue">>)

append(key, value) ==
  IF throwIfImmutable THEN Thrown("append", key, value, "Immutable", <<>>)
  ELSE LET k == validateKey(key) IN
    IF ~k.ok THEN Thrown("append", key, value, k.val, <<"validateKey">>)
    ELSE LET v == validateValue(value) IN
      IF ~v.ok
      THEN Thrown("append", key, value, v.val, <<"validateKey", "validateValue">>)
      ELSE Returned("append", key, value, "this",
                    priv_append(entries, k.val, v.val),
                    <<"validateKey", "validateValue">>)

delete(key, value) ==
  IF throwIfImmutable THEN Thrown("delete", key, value, "Immutable", <<>>)
  ELSE LET k == validateKey(key) IN
    IF ~k.ok THEN Thrown("delete", key, value, k.val, <<"validateKey">>)
    ELSE IF value = undefined
    THEN LET r == priv_delete(entries, k.val, undefined)
         IN Returned("delete", key, value, r.deleted, r.entries, <<"validateKey">>)
    ELSE LET v == validateValue(value) IN
      IF ~v.ok
      THEN Thrown("delete", key, value, v.val, <<"validateKey", "validateValue">>)
      ELSE LET r == priv_delete(entries, k.val, v.val)
           IN Returned("delete", key, value, r.deleted, r.entries,
                       <<"validateKey", "validateValue">>)

\* The first index (from 1) of an entry of es with the key
FirstIndex(es, key) == CHOOSE i \in 1..Len(es) :
  es[i][1] = key /\ \A j \in 1..(i - 1) : es[j][1] # key

\* Variant: get takes the entry it answers with out of the array.
get_take(key) ==
  LET k == validateKey(key) IN
    IF ~k.ok THEN Thrown("get", key, undefined, k.val, <<"validateKey">>)
    ELSE LET r == priv_get(entries, k.val) IN
      IF ~r.ok THEN Thrown("get", key, undefined, r.val, <<"validateKey">>)
      ELSE Returned("get", key, undefined, r.val,
                    splice1(entries, FirstIndex(entries, k.val) - 1),
                    <<"validateKey">>)

get(key) ==
  LET k == validateKey(key) IN
    IF ~k.ok THEN Thrown("get", key, undefined, k.val, <<"validateKey">>)
    ELSE LET r == priv_get(entries, k.val) IN
      IF ~r.ok THEN Thrown("get", key, undefined, r.val, <<"validateKey">>)
      ELSE Returned("get", key, undefined, r.val, entries, <<"validateKey">>)

getAll(key) ==
  LET k == validateKey(key) IN
    IF ~k.ok THEN Thrown("getAll", key, undefined, k.val, <<"validateKey">>)
    ELSE Returned("getAll", key, undefined, priv_getAll(entries, k.val),
                  entries, <<"validateKey">>)

getOptional(key) ==
  LET k == validateKey(key) IN
    IF ~k.ok THEN Thrown("getOptional", key, undefined, k.val, <<"validateKey">>)
    ELSE Returned("getOptional", key, undefined,
                  priv_getOptional(entries, k.val), entries, <<"validateKey">>)

has(key, value) ==
  LET k == validateKey(key) IN
    IF ~k.ok THEN Thrown("has", key, value, k.val, <<"validateKey">>)
    ELSE IF value = undefined
    THEN Returned("has", key, value, priv_has(entries, k.val, undefined),
                  entries, <<"validateKey">>)
    ELSE LET v == validateValue(value) IN
      IF ~v.ok
      THEN Thrown("has", key, value, v.val, <<"validateKey", "validateValue">>)
      ELSE Returned("has", key, value, priv_has(entries, k.val, v.val),
                    entries, <<"validateKey", "validateValue">>)

\* Variant: the entries of the key are deleted before the value is validated.
set_deleteFirst(key, value) ==
  IF throwIfImmutable THEN Thrown("set", key, value, "Immutable", <<>>)
  ELSE LET k == validateKey(key) IN
    IF ~k.ok THEN Thrown("set", key, value, k.val, <<"validateKey">>)
    ELSE LET es == priv_delete(entries, k.val, undefined).entries
             v == validateValue(value)
         IN IF ~v.ok
            THEN /\ entries' = es
                 /\ last' = Call("set", key, value, v.val, undefined,
                                 <<"validateKey", "validateValue">>)
                 /\ appended' = Logged("set", key, value, FALSE)
                 /\ UNCHANGED <<factory, instance, immutable, atLock, gen>>
            ELSE Returned("set", key, value, "this",
                          priv_append(es, k.val, v.val),
                          <<"validateKey", "validateValue">>)

\* Variant: set() is written with the public delete() and append(), which
\* validate what was already validated.
set_viaPublic(key, value) ==
  IF throwIfImmutable THEN Thrown("set", key, value, "Immutable", <<>>)
  ELSE LET k == validateKey(key) IN
    IF ~k.ok THEN Thrown("set", key, value, k.val, <<"validateKey">>)
    ELSE LET v == validateValue(value) IN
      IF ~v.ok
      THEN Thrown("set", key, value, v.val, <<"validateKey", "validateValue">>)
      ELSE LET kd == validateKey(k.val)
               ka == validateKey(k.val)
               va == validateValue(v.val)
           IN Returned("set", key, value, "this",
                       priv_append(priv_delete(entries, kd.val, undefined).entries,
                                   ka.val, va.val),
                       <<"validateKey", "validateValue", "validateKey",
                         "validateKey", "validateValue">>)

set(key, value) ==
  IF throwIfImmutable THEN Thrown("set", key, value, "Immutable", <<>>)
  ELSE LET k == validateKey(key) IN
    IF ~k.ok THEN Thrown("set", key, value, k.val, <<"validateKey">>)
    ELSE LET v == validateValue(value) IN
      IF ~v.ok
      THEN Thrown("set", key, value, v.val, <<"validateKey", "validateValue">>)
      ELSE Returned("set", key, value, "this",
                    priv_set(entries, k.val, v.val),
                    <<"validateKey", "validateValue">>)

\* Variant: clear() drops the last entry only.
clear_pop ==
  IF throwIfImmutable
  THEN Thrown("clear", undefined, undefined, "Immutable", <<>>)
  ELSE Returned("clear", undefined, undefined, undefined,
                SubSeq(entries, 1, Len(entries) - 1), <<>>)

\* Variant: clear() without the immutability check.
clear_unguarded ==
  Returned("clear", undefined, undefined, undefined, <<>>, <<>>)

clear ==
  IF throwIfImmutable
  THEN Thrown("clear", undefined, undefined, "Immutable", <<>>)
  ELSE Returned("clear", undefined, undefined, undefined, <<>>, <<>>)

sort ==
  IF throwIfImmutable
  THEN Thrown("sort", undefined, undefined, "Immutable", <<>>)
  ELSE Returned("sort", undefined, undefined, "this", arraySort(entries), <<>>)

size == Len(entries)

\* What a generator returned by entries() yields when it is run to its end
\* over the array es.
RECURSIVE entriesLoop(_, _, _)
entriesLoop(es, i, yielded) ==
  IF ~(i < Len(es)) THEN yielded
  ELSE entriesLoop(es, i + 1, Append(yielded, es[i + 1]))

entriesOf(es) == entriesLoop(es, 0, <<>>)

\* What the generators returned by keys() and values() yield when they are
\* run to their end over the array es.
RECURSIVE keysLoop(_, _, _)
keysLoop(es, i, yielded) ==
  IF ~(i < Len(es)) THEN yielded
  ELSE keysLoop(es, i + 1, Append(yielded, es[i + 1][1]))

keysOf(es) == keysLoop(es, 0, <<>>)

RECURSIVE valuesLoop(_, _, _)
valuesLoop(es, i, yielded) ==
  IF ~(i < Len(es)) THEN yielded
  ELSE valuesLoop(es, i + 1, Append(yielded, es[i + 1][2]))

valuesOf(es) == valuesLoop(es, 0, <<>>)

\* [Symbol.iterator]() returns this.entries()
Symbol_iterator(es) == entriesOf(es)

\* Variant: the callback is handed the key first.
RECURSIVE forEachLoop_keyFirst(_, _, _)
forEachLoop_keyFirst(es, i, called) ==
  IF ~(i < Len(es)) THEN called
  ELSE forEachLoop_keyFirst(es, i + 1,
                            Append(called, <<es[i + 1][1], es[i + 1][2]>>))

\* The argument lists forEach hands to a callback that leaves the container
\* alone, in the order of the calls.
RECURSIVE forEachLoop(_, _, _)
forEachLoop(es, i, called) ==
  IF ~(i < Len(es)) THEN called
  ELSE forEachLoop(es, i + 1, Append(called, <<es[i + 1][2], es[i + 1][1]>>))

forEach(es) == forEachLoop(es, 0, <<>>)

\* Variant: the call flips the flag.
makeImmutable_toggle ==
  /\ instance
  /\ immutable' = ~immutable
  /\ atLock' = IF immutable THEN atLock ELSE entries
  /\ last' = Call("makeImmutable", undefined, undefined, "ok", "this", <<>>)
  /\ appended' = Logged("makeImmutable", undefined, undefined, TRUE)
  /\ UNCHANGED <<factory, instance, entries, gen>>

makeImmutable ==
  /\ instance
  /\ immutable' = TRUE
  /\ atLock' = IF immutable THEN atLock ELSE entries
  /\ last' = Call("makeImmutable", undefined, undefined, "ok", "this", <<>>)
  /\ appended' = Logged("makeImmutable", undefined, undefined, TRUE)
  /\ UNCHANGED <<factory, instance, entries, gen>>

Next ==
  \/ \E key \in ArgKeys, value \in ArgValues : append(key, value)
  \/ \E key \in ArgKeys, value \in ArgValues : delete(key, value)
  \/ \E key \in ArgKeys : get(key)
  \/ \E key \in ArgKeys : getAll(key)
  \/ \E key \in ArgKeys : getOptional(key)
  \/ \E key \in ArgKeys, value \in ArgValues : has(key, value)
  \/ \E key \in ArgKeys, value \in ArgValues : set(key, value)
  \/ clear
  \/ sort
  \/ makeImmutable

Spec == Init /\ [][Next]_vars

----------------------------------------------------------------------------
(* A generator consumed step by step, with calls in between.               *)

\* keys(), values() or entries() is called: the generator is made, its body
\* has not started.
Generator(kind) ==
  /\ instance
  /\ gen.state = "none"
  /\ gen' = [state |-> "suspended", kind |-> kind, i |-> 0, atCall |-> entries,
             yielded |-> <<>>, changed |-> FALSE, callback |-> "none"]
  /\ UNCHANGED <<factory, instance, entries, immutable, last, atLock, appended>>

keys == Generator("keys")

values == Generator("values")

entriesGenerator == Generator("entries")

\* Variant: values() yields what keys() yields.
yield_keyForValue(kind, entry) ==
  IF kind = "entries" THEN entry ELSE entry[1]

\* What the generator of the kind yields for an entry of the array
yield(kind, entry) ==
  IF kind = "keys" THEN entry[1]
  ELSE IF kind = "values" THEN entry[2]
  ELSE entry

\* next() on the generator: the loop tests its index against the length the
\* array has now and yields from the array as it is now, or returns.
next ==
  /\ gen.state = "suspended"
  /\ gen' = IF gen.i < Len(entries)
            THEN [gen EXCEPT !.yielded = Append(@, yield(gen.kind, entries[gen.i + 1])),
                             !.i = @ + 1]
            ELSE [gen EXCEPT !.state = "done"]
  /\ UNCHANGED <<factory, instance, entries, immutable, last, atLock, appended>>

\* The arguments of the calls made while the generator is consumed
IterKeys == {"B", "b"}
IterValues == {""}

\* The generators are consumed on a new, empty container of the class with
\* default options.
InitIter == Init /\ factory = "default" /\ last.init.kind = "undefined"

NextIter ==
  \/ keys
  \/ values
  \/ entriesGenerator
  \/ next
  \/ \E key \in IterKeys, value \in IterValues : append(key, value)
  \/ \E key \in IterKeys : delete(key, undefined)
  \/ \E key \in IterKeys, value \in IterValues : set(key, value)
  \/ clear
  \/ sort

SpecIter == InitIter /\ [][NextIter]_vars

----------------------------------------------------------------------------
(* A loop over the container whose body calls the container: forEach with  *)
(* its callback, and for...of over keys(), values() or entries().          *)

\* What the body of the loop does with the container: nothing, or
\* append(CallbackKey, CallbackValue), or set(CallbackKey, CallbackValue)
Callbacks == {"none", "append", "set"}
CallbackKey == "b"
CallbackValue == ""

Loops == {"forEach", "keys", "values", "entries"}

\* The call the body makes on the array es: the array it leaves, or the
\* error it throws.
callback(cb, es) ==
  IF cb = "none" THEN Return(es)
  ELSE IF throwIfImmutable THEN Throw("Immutable")
  ELSE LET k == validateKey(CallbackKey)
           v == validateValue(CallbackValue)
       IN IF ~k.ok THEN Throw(k.val)
          ELSE IF ~v.ok THEN Throw(v.val)
          ELSE IF cb = "append" THEN Return(priv_append(es, k.val, v.val))
          ELSE Return(priv_set(es, k.val, v.val))

\* forEach(cb) is called, or a for...of loop with the body cb is entered on
\* a new generator: no iteration has run.
loop(kind, cb) ==
  /\ instance
  /\ gen.state = "none"
  /\ gen' = [state |-> "suspended", kind |-> kind, i |-> 0, atCall |-> entries,
             yielded |-> <<>>, changed |-> FALSE, callback |-> cb]
  /\ last' = Call(kind, undefined, undefined, "ok", undefined, <<>>)
  /\ appended' = Logged(kind, undefined, undefined, TRUE)
  /\ UNCHANGED <<factory, instance, entries, immutable, atLock>>

\* What the body is handed for an entry of the array
handed(kind, entry) ==
  IF kind = "forEach" THEN <<entry[2], entry[1]>> ELSE yield(kind, entry)

\* One turn of the loop: the index is tested against the length the array
\* has now; the body runs on the entry at the index and may grow the array;
\* an error of the body ends the loop.
\* The array grows without bound under a body that appends. When it would
\* pass MaxLen the model forgets the entries the loop has been over, and
\* counts the index, and what was handed, from the first entry kept:
\* neither the loop nor an appending body reads the forgotten entries again.
iteration ==
  /\ gen.state = "suspended"
  /\ IF ~(gen.i < Len(entries))
     THEN /\ gen' = [gen EXCEPT !.state = "done"]
          /\ UNCHANGED entries
     ELSE LET called == callback(gen.callback, entries)
          IN IF ~called.ok
             THEN /\ gen' = [gen EXCEPT !.state = "thrown",
                                        !.yielded = Append(@, handed(gen.kind, entries[gen.i + 1]))]
                  /\ UNCHANGED entries
             ELSE IF Len(called.val) <= MaxLen
             THEN /\ entries' = called.val
                  /\ gen' = [gen EXCEPT !.yielded = Append(@, handed(gen.kind, entries[gen.i + 1])),
                                        !.i = @ + 1,
                                        !.changed = @ \/ called.val # entries]
             ELSE /\ gen.callback = "append"
                  /\ entries' = SubSeq(called.val, gen.i + 2, Len(called.val))
                  /\ gen' = [gen EXCEPT !.yielded = <<>>,
                                        !.i = 0,
                                        !.changed = TRUE]
  /\ UNCHANGED <<factory, instance, immutable, last, atLock, appended>>

\* Reading the size attribute
get_size == Returned("size", undefined, undefined, size, entries, <<>>)

\* The loops run on a container of any of the classes, locked or not; the
\* queries are called before the loop is entered and after it has ended.
InitLoop == Init

NextLoop ==
  \/ \E kind \in Loops, cb \in Callbacks : loop(kind, cb)
  \/ iteration
  \/ gen.state # "suspended" /\ makeImmutable
  \/ gen.state # "suspended" /\ get_size
  \/ \E key \in ArgKeys : gen.state # "suspended" /\ get(key)
  \/ \E key \in ArgKeys : gen.state # "suspended" /\ getAll(key)
  \/ \E key \in ArgKeys : gen.state # "suspended" /\ getOptional(key)
  \/ \E key \in ArgKeys, value \in ArgValues :
       gen.state # "suspended" /\ has(key, value)

\* A loop that has been entered takes its next turn.
SpecLoop == InitLoop /\ [][NextLoop]_vars /\ WF_vars(iteration)

----------------------------------------------------------------------------
(* Properties.                                                             *)

\* validateKey(key) and validateValue(value) of the last call
lastKey == validateKey(last.key)
lastValue == validateValue(last.value)

\* The last call handed a value to the value validator's side of the method.
lastValueGiven ==
  \/ last.op \in {"append", "set"}
  \/ last.op \in {"delete", "has"} /\ last.value # undefined

\* What a query answers on the array es: its outcome and its return value.
Answer(op, es, key, value) ==
  LET k == validateKey(key)
      v == validateValue(value)
  IN IF ~k.ok THEN <<k.val, undefined>>
     ELSE IF op = "get"
          THEN LET r == priv_get(es, k.val)
               IN IF r.ok THEN <<"ok", r.val>> ELSE <<r.val, undefined>>
     ELSE IF op = "getOptional" THEN <<"ok", priv_getOptional(es, k.val)>>
     ELSE IF op = "getAll" THEN <<"ok", priv_getAll(es, k.val)>>
     ELSE IF value = undefined THEN <<"ok", priv_has(es, k.val, undefined)>>
     ELSE IF ~v.ok THEN <<v.val, undefined>>
     ELSE <<"ok", priv_has(es, k.val, v.val)>>

\* C1: once makeImmutable() has locked the container, append, delete, set,
\* clear and sort throw the immutability error and leave the array as it
\* was, while get, getOptional, getAll, has, size and iteration never throw
\* that error and answer as they would on the array of the moment of the
\* lock.
C1_LockedIsReadOnly ==
  /\ immutable => entries = atLock
  /\ (last.locked /\ last.op \in Mutators)
       => (last.outcome = "Immutable" /\ entries = last.pre)
  /\ (last.locked /\ last.op \in Queries)
       => /\ last.outcome # "Immutable"
          /\ <<last.outcome, last.ret>>
               = Answer(last.op, atLock, last.key, last.value)
          /\ size = Len(atLock)
          /\ entriesOf(entries) = atLock

C1_Witness ==
  /\ last.locked
  /\ last.op = "clear"
  /\ Len(entries) >= 2

\* C2: the lock is one-way: no step takes immutable from TRUE to FALSE.
C2_LockIsOneWay == [][immutable => immutable']_vars

C2_Witness ==
  /\ last.locked
  /\ last.op = "makeImmutable"
  /\ immutable

\* C3: on a locked container append, delete and set throw the immutability
\* error without calling validateKey or validateValue, also when the
\* validators would reject the arguments.
C3_LockCheckedBeforeValidation ==
  (last.locked /\ last.op \in {"append", "delete", "set"})
    => (last.outcome = "Immutable" /\ last.calls = <<>>)

C3_Witness ==
  /\ last.locked
  /\ last.op = "append"
  /\ ~lastKey.ok
  /\ ~lastValue.ok
  /\ last.outcome = "Immutable"

\* C4: when the key validator or the value validator rejects an argument of
\* append, delete, set, get, getOptional, getAll or has, the call throws the
\* validator's error and the array is the one from before the call.
C4_RejectionLeavesEntries ==
  LET reached == last.op \in Queries \/ (last.op \in Mutators /\ ~last.locked)
      takesKey == last.op \in Queries \cup {"append", "delete", "set"}
  IN /\ (reached /\ takesKey /\ ~lastKey.ok)
          => (last.outcome = lastKey.val /\ entries = last.pre)
     /\ (reached /\ takesKey /\ lastKey.ok /\ lastValueGiven /\ ~lastValue.ok)
          => (last.outcome = lastValue.val /\ entries = last.pre)
     /\ (takesKey /\ last.outcome \in {"Invalid key", "Invalid value"})
          => entries = last.pre

C4_Witness ==
  /\ last.op = "set"
  /\ last.outcome = "Invalid value"
  /\ lastKey.ok
  /\ Len(priv_getAll(entries, lastKey.val)) >= 2

\* C5: while append is the only method called on a new container, the array
\* holds exactly the validated pairs of the successful appends in call
\* order, duplicates kept, and size is their number; in every state size is
\* the number of pairs entries() yields.
C5_AppendsInCallOrder ==
  /\ appended.only
       => /\ size = Len(appended.args)
          /\ entriesOf(entries)
               = [i \in 1..Len(appended.args) |->
                    <<validateKey(appended.args[i][1]).val,
                      validateValue(appended.args[i][2]).val>>]
  /\ size = Len(entriesOf(entries))

C5_Witness ==
  /\ appended.only
  /\ Len(appended.args) = 3
  /\ entries[1][1] = entries[3][1]
  /\ entries[1] # entries[3]
  /\ appended.args[1][1] # entries[1][1]
  /\ last.outcome = "Invalid value"

\* The positions of the sequence es whose entry has the key k, and those
\* whose entry is the pair (k, v).
WithKey(es, k) == {i \in 1..Len(es) : es[i][1] = k}
WithPair(es, k, v) == {i \in 1..Len(es) : es[i] = <<k, v>>}

\* C6: on a mutable container set(k, v) with accepted k and v leaves the
\* previous array without the entries of key validateKey(k), the others in
\* their order, followed by (validateKey(k), validateValue(v)); getAll(k)
\* then answers exactly that one value.
C6_SetMovesToEnd ==
  (last.op = "set" /\ ~last.locked /\ lastKey.ok /\ lastValue.ok)
    => /\ last.outcome = "ok"
       /\ entries = SelectSeq(last.pre, LAMBDA e : e[1] # lastKey.val)
                      \o <<<<lastKey.val, lastValue.val>>>>
       /\ Answer("getAll", entries, last.key, undefined)
            = <<"ok", <<lastValue.val>>>>

C6_Witness ==
  /\ last.op = "set"
  /\ last.outcome = "ok"
  /\ Len(last.pre) = 3
  /\ WithKey(last.pre, lastKey.val) = {1, 2}
  /\ last.pre[1][2] # last.pre[2][2]
  /\ lastValue.val # last.pre[1][2]

\* C7: on a mutable container delete(k) without a value removes every entry
\* whose key is validateKey(k), returns how many there were, keeps the other
\* entries in their order, and has(k) is false afterwards.
C7_DeleteByKey ==
  (last.op = "delete" /\ ~last.locked /\ lastKey.ok /\ last.value = undefined)
    => /\ last.outcome = "ok"
       /\ entries = SelectSeq(last.pre, LAMBDA e : e[1] # lastKey.val)
       /\ last.ret = Cardinality(WithKey(last.pre, lastKey.val))
       /\ Answer("has", entries, last.key, undefined) = <<"ok", FALSE>>

C7_Witness ==
  /\ last.op = "delete"
  /\ last.value = undefined
  /\ last.outcome = "ok"
  /\ Len(last.pre) = 3
  /\ WithKey(last.pre, lastKey.val) = {2, 3}
  /\ last.ret = 2

C9_SortStable ==
  (last.op = "sort" /\ ~last.locked)
    => /\ last.outcome = "ok"
       /\ Len(entries) = Len(last.pre)
       /\ \A e \in Keys \X Values :
            Cardinality({i \in 1..Len(entries) : entries[i] = e})
              = Cardinality({i \in 1..Len(last.pre) : last.pre[i] = e})
       /\ \A i, j \in 1..Len(entries) :
            i < j => ~strLess(entries[j][1], entries[i][1])
       /\ \A k \in Keys :
            SelectSeq(entries, LAMBDA e : e[1] = k)
              = SelectSeq(last.pre, LAMBDA e : e[1] = k)

C9_Witness ==
  /\ last.op = "sort"
  /\ last.outcome = "ok"
  /\ Len(last.pre) = 3
  /\ last.pre[1][1] = last.pre[3][1]
  /\ last.pre[1][2] # last.pre[3][2]
  /\ strLess(last.pre[1][1], last.pre[2][1])
  /\ entries = <<last.pre[1], last.pre[3], last.pre[2]>>

\* C10: get(k) with an accepted key returns the value of the first entry
\* whose key is validateKey(k) and throws the missing-key error only when
\* there is no such entry, whatever value the entry holds.
C10_GetThrowsOnlyWhenAbsent ==
  (last.op = "get" /\ lastKey.ok)
    => LET found == WithKey(last.pre, lastKey.val)
           first == CHOOSE i \in found : \A j \in found : i <= j
       IN IF found = {}
          THEN last.outcome = "Missing"
          ELSE last.outcome = "ok" /\ last.ret = last.pre[first][2]

\* The first position of the sequence es whose entry has the key k.
FirstWithKey(es, k) ==
  CHOOSE i \in WithKey(es, k) : \A j \in WithKey(es, k) : i <= j

\* C11: getOptional(k) with an accepted key never throws, returns the value
\* of the first entry whose key is validateKey(k), and returns undefined
\* exactly when there is no such entry, that is exactly when has(k) is
\* false.
C11_GetOptionalAbsentIffNoEntry ==
  (last.op = "getOptional" /\ lastKey.ok)
    => /\ last.outcome = "ok"
       /\ WithKey(last.pre, lastKey.val) # {}
            => last.ret = last.pre[FirstWithKey(last.pre, lastKey.val)][2]
       /\ (last.ret = undefined) <=> (WithKey(last.pre, lastKey.val) = {})
       /\ (last.ret = undefined)
            <=> (Answer("has", entries, last.key, undefined) = <<"ok", FALSE>>)

\* C12: getAll(k) with an accepted key returns the values of all entries
\* whose key is validateKey(k), in array order and with duplicates, the
\* empty sequence when there is none; when it is not empty its first
\* element is what get(k) returns.
C12_GetAllStartsWithGet ==
  (last.op = "getAll" /\ lastKey.ok)
    => LET matching == SelectSeq(last.pre, LAMBDA e : e[1] = lastKey.val)
       IN /\ last.outcome = "ok"
          /\ last.ret = [i \in 1..Len(matching) |-> matching[i][2]]
          /\ last.ret # <<>>
               => Answer("get", entries, last.key, undefined)
                    = <<"ok", last.ret[1]>>

Validated(pairs) ==
  [i \in 1..Len(pairs) |->
     <<validateKey(pairs[i][1]).val, validateValue(pairs[i][2]).val>>]

\* C14: the constructor seeds through append: without init the container is
\* empty, an iterable gives its validated pairs in iteration order, a plain
\* mapping gives one validated pair per property in definition order, and
\* size is the number of pairs.
C14_SeededInDefinitionOrder ==
  (last.op = "new" /\ instance)
    => /\ last.init.kind \in {"undefined", "iterable", "object"}
       /\ entries = Validated(last.init.pairs)
       /\ size = Len(last.init.pairs)

\* C14 as the code has it: a plain mapping is seeded in the order of
\* Object.entries, its integer-like names first in ascending numeric order,
\* then its other names in definition order.
C14_SeededInObjectEntriesOrder ==
  (last.op = "new" /\ instance)
    => LET pairs == last.init.pairs
           named == SelectSeq(pairs, LAMBDA p : ~IsIndex(p[1]))
           n == Len(pairs) - Len(named)
       IN /\ last.init.kind \in {"undefined", "iterable", "object"}
          /\ size = Len(pairs)
          /\ last.init.kind = "iterable" => entries = Validated(pairs)
          /\ last.init.kind = "object"
               => /\ SubSeq(entries, n + 1, Len(entries)) = Validated(named)
                  /\ {entries[i] : i \in 1..n}
                       = {Validated(pairs)[i] :
                            i \in {j \in 1..Len(pairs) : IsIndex(pairs[j][1])}}
                  /\ \A i, j \in 1..n :
                       i < j => IndexOf(entries[i][1]) < IndexOf(entries[j][1])

C14_Witness ==
  /\ last.op = "new"
  /\ instance
  /\ last.init.kind = "object"
  /\ Len(last.init.pairs) = 2
  /\ last.init.pairs[1][1] = "10"
  /\ last.init.pairs[2][1] = "2"
  /\ entries[1][1] = "2"

\* A pair of the init source that a validator rejects
Rejected(p) == ~validateKey(p[1]).ok \/ ~validateValue(p[2]).ok

\* C15: when a validator rejects a pair of the init source, at whatever
\* position, or the init is null, the constructor throws and the caller
\* gets no container: no method is ever called on what was built.
C15_FailedConstructionGivesNoInstance ==
  /\ (last.op = "new"
        /\ (\/ last.init.kind = "null"
            \/ \E i \in 1..Len(last.init.pairs) : Rejected(last.init.pairs[i])))
       => (~instance /\ last.outcome # "ok" /\ last.ret = undefined)
  /\ ~instance => last.op = "new"

C15_Witness ==
  /\ last.op = "new"
  /\ ~instance
  /\ last.init.kind = "iterable"
  /\ Len(last.init.pairs) = 2
  /\ ~Rejected(last.init.pairs[1])
  /\ Rejected(last.init.pairs[2])
  /\ Len(entries) = 1

\* What new Container(c.entries()) of the same class makes of the container
RoundTrip == construct([kind |-> "iterable", pairs |-> entriesOf(entries)])

\* C16: for every container of every class, constructing a container of the
\* class from entries() succeeds and gives the same entries in the same
\* order.
C16_RoundTrip ==
  instance => (RoundTrip.ok /\ RoundTrip.entries = entriesOf(entries))

\* C16 as the code has it: the round trip reproduces the container when the
\* validators return every stored key and value unchanged.
C16_RoundTripOfFixedPoints ==
  (instance /\ \A i \in 1..Len(entries) :
                 /\ validateKey(entries[i][1]) = Return(entries[i][1])
                 /\ validateValue(entries[i][2]) = Return(entries[i][2]))
    => (RoundTrip.ok /\ RoundTrip.entries = entriesOf(entries))

C16_Witness ==
  /\ instance
  /\ factory = "TestClass"
  /\ last.op = "append"
  /\ last.key = "B"
  /\ last.outcome = "ok"
  /\ Len(entries) = 3
  /\ entries[1][1] = entries[3][1]
  /\ entries[1][2] # entries[3][2]
  /\ RoundTrip.entries = entries

\* How often the pair e occurs in the sequence es
Count(es, e) == Cardinality({i \in 1..Len(es) : es[i] = e})

\* Every pair of the sequence es occurs in the sequence of at least as often
SubBag(es, of) ==
  \A i \in 1..Len(es) : Count(es, es[i]) <= Count(of, es[i])

\* C17: a successful append or set calls validateKey once and validateValue
\* once and stores exactly their results, the constructor does so for every
\* seeded pair, and no other call validates or alters a stored pair: the
\* pairs it leaves are pairs that were stored before it.
C17_ValidatedOnceAtInsertion ==
  /\ (last.op \in {"append", "set"} /\ last.outcome = "ok")
       => /\ last.calls = <<"validateKey", "validateValue">>
          /\ entries # <<>>
          /\ entries[Len(entries)] = <<lastKey.val, lastValue.val>>
          /\ SubBag(SubSeq(entries, 1, Len(entries) - 1), last.pre)
  /\ (last.op \in {"delete", "clear", "sort", "makeImmutable"} \cup Queries)
       => /\ SubBag(entries, last.pre)
          /\ Len(SelectSeq(last.calls, LAMBDA c : c = "validateKey")) <= 1
          /\ Len(SelectSeq(last.calls, LAMBDA c : c = "validateValue")) <= 1
  /\ (last.op = "new" /\ instance)
       => /\ Len(last.calls) = 2 * Len(entries)
          /\ \A i \in 1..Len(entries) :
               /\ last.calls[2 * i - 1] = "validateKey"
               /\ last.calls[2 * i] = "validateValue"

C17_Witness ==
  /\ factory = "SwapCase"
  /\ last.op = "set"
  /\ last.outcome = "ok"
  /\ Len(last.pre) = 3
  /\ Cardinality(WithKey(last.pre, lastKey.val)) = 2
  /\ entries[Len(entries)][1] # last.key

\* C18: on a mutable container clear() leaves no entry and size 0 and does
\* not touch the flag, whatever the array held, an empty array included
\* (a second clear() in a row); has(k) is then false and getAll(k) empty
\* for every key.
C18_ClearEmpties ==
  (last.op = "clear" /\ ~last.locked)
    => /\ last.outcome = "ok"
       /\ entries = <<>>
       /\ size = 0
       /\ ~immutable
       /\ \A k \in ArgKeys :
            validateKey(k).ok
              => /\ Answer("has", entries, k, undefined) = <<"ok", FALSE>>
                 /\ Answer("getAll", entries, k, undefined) = <<"ok", <<>>>>

C18_Witness ==
  /\ last.op = "clear"
  /\ last.outcome = "ok"
  /\ Len(last.pre) = 3
  /\ entries = <<>>

\* C19: forEach calls the callback once per entry, in array order, with the
\* value first and the key second; keys(), values(), entries() and the
\* default iterator yield the keys, the values and the pairs of the same
\* entries in the same order.
C19_IterationInArrayOrder ==
  instance
    => /\ forEach(entries)
            = [i \in 1..Len(entries) |-> <<entries[i][2], entries[i][1]>>]
       /\ keysOf(entries) = [i \in 1..Len(entries) |-> entries[i][1]]
       /\ valuesOf(entries) = [i \in 1..Len(entries) |-> entries[i][2]]
       /\ entriesOf(entries) = entries
       /\ Symbol_iterator(entries) = entriesOf(entries)

C19_Witness ==
  /\ instance
  /\ Len(entries) = 3
  /\ entries[1][1] # entries[2][1]
  /\ entries[2][2] # entries[3][2]
  /\ forEach(entries)[1] = <<"", "B">>
  /\ keysOf(entries)[3] = "b"

\* The keys, the values or the pairs of the sequence es, in its order
Yields(kind, es) ==
  [i \in 1..Len(es) |->
     CASE kind = "keys" -> es[i][1]
       [] kind = "values" -> es[i][2]
       [] kind = "entries" -> es[i]]

----------------------------------------------------------------------------
\* C21: a loop over the container that has been entered finishes, by
\* returning or by throwing, whatever its body does with the container
\* (original statement; the code does not meet it).
C21_IterationFinishes ==
  (gen.state = "suspended") ~> (gen.state \in {"done", "thrown"})

\* In a loop over a non-empty, unlocked container whose body appends, the
\* test of the loop holds at every turn: the loop never gets to its exit.
C21_AppendingLoopNeverExits ==
  (gen.callback = "append" /\ gen.state # "none" /\ gen.atCall # <<>> /\ ~immutable)
    => /\ Len(entries) - gen.i = Len(gen.atCall)
       /\ gen.i < Len(entries)
       /\ gen.state = "suspended"

\* The loops whose body leaves the container alone, or sets one fixed key,
\* do finish.
C21_OtherLoopsFinish ==
  (gen.state = "suspended" /\ gen.callback # "append")
    ~> (gen.state \in {"done", "thrown"})

----------------------------------------------------------------------------
\* The operations that are queries
ReadOnlyOps == Queries \cup {"size"} \cup Loops

\* The step is a call of a query, or a turn of a loop whose body leaves the
\* container alone.
ReadOnlyStep ==
  \/ last' # last /\ last'.op \in ReadOnlyOps
  \/ gen' # gen /\ gen.state = "suspended" /\ gen.callback = "none"

\* C22: a query (size, get, getOptional, getAll, has, keys, values, entries,
\* forEach with a body that leaves the container alone) changes neither the
\* array nor the flag, whether it returns or throws; makeImmutable() does
\* not change the array.
C22_QueriesAreReadOnly ==
  [][/\ ReadOnlyStep => (entries' = entries /\ immutable' = immutable)
     /\ (last' # last /\ last'.op = "makeImmutable") => entries' = entries]_vars

\* A loop with an idle body has run over two entries of an unlocked
\* container, the container was locked, and a get has then thrown.
C22_Witness ==
  /\ gen.state = "done" /\ gen.callback = "none" /\ Len(gen.yielded) = 2
  /\ entries = gen.atCall
  /\ immutable /\ atLock = entries
  /\ last.op = "get" /\ last.outcome # "ok" /\ last.locked

----------------------------------------------------------------------------
\* The last call was handed an accepted key, and an entry is stored under
\* what the key validator makes of it.
StoredUnderLastKey ==
  /\ lastKey.ok
  /\ WithKey(last.pre, lastKey.val) # {}

\* What C23 says of append, has, getAll, delete and set
NormalisedExceptGet ==
  /\ (last.op = "append" /\ last.outcome = "ok")
       => entries = Append(last.pre, <<lastKey.val, lastValue.val>>)
  /\ (StoredUnderLastKey /\ last.op = "has" /\ last.value = undefined)
       => (last.outcome = "ok" /\ last.ret = TRUE)
  /\ (StoredUnderLastKey /\ last.op = "getAll")
       => /\ last.outcome = "ok"
          /\ Len(last.ret) = Cardinality(WithKey(last.pre, lastKey.val))
  /\ (StoredUnderLastKey /\ last.op = "delete" /\ last.value = undefined
        /\ ~last.locked)
       => /\ last.outcome = "ok"
          /\ last.ret = Cardinality(WithKey(last.pre, lastKey.val))
          /\ WithKey(entries, lastKey.val) = {}
  /\ (StoredUnderLastKey /\ last.op = "set" /\ last.outcome = "ok")
       => /\ WithKey(entries, lastKey.val) = {Len(entries)}
          /\ entries[Len(entries)] = <<lastKey.val, lastValue.val>>

\* C23: keys are compared as the key validator returns them, on the side of
\* the insertion and on the side of the lookup: append(k1, v) stores
\* validateKey(k1), and a call with a key k2 such that an entry is stored
\* under validateKey(k2) finds it: has(k2) is true, get(k2) returns the value
\* of the first such entry, getAll(k2) returns their values, delete(k2)
\* removes them and set(k2, w) replaces them (original statement; the code
\* does not meet it for get).
C23_KeysNormalisedOnBothSides ==
  /\ NormalisedExceptGet
  /\ (StoredUnderLastKey /\ last.op = "get")
       => /\ last.outcome = "ok"
          /\ last.ret = last.pre[FirstWithKey(last.pre, lastKey.val)][2]

\* The same, get being asked only for keys whose first entry holds a value
\* other than undefined.
C23_NormalisedForDefinedValues ==
  /\ NormalisedExceptGet
  /\ (StoredUnderLastKey /\ last.op = "get"
        /\ last.pre[FirstWithKey(last.pre, lastKey.val)][2] # undefined)
       => /\ last.outcome = "ok"
          /\ last.ret = last.pre[FirstWithKey(last.pre, lastKey.val)][2]

====
